---- MODULE Spec2Model ----
(***************************************************************************)
(* Model of the OF-CONFIG server entry point (src/server/server.c): the    *)
(* option parser, the signal handler, the daemonizer, the libnetconf       *)
(* bootstrap sequence, the poll loop and the cleanup of main().            *)
(*                                                                         *)
(* The main program is a sequence of steps indexed by pc.  The signal      *)
(* handler runs asynchronously between any two steps of the main program   *)
(* once sigaction() has installed it (all signals are blocked while it     *)
(* runs, so each run is atomic).  Signals that reach the process before a  *)
(* handler is installed, and SIGKILL, are acted on by the kernel and not   *)
(* by this program; they are outside the model.                            *)
(*                                                                         *)
(* Strings (argv elements, the environment value) are sequences of         *)
(* characters; a long option name is one element.                          *)
(***************************************************************************)
EXTENDS Integers, Sequences, FiniteSets, TLC

(* ---------------------------------------------------------------- bounds *)
\* longest argument list (argv without the program name)
MaxArgs == 3
\* longest argument list of the runs checked for liveness (FairSpec)
MaxArgsFair == 1
\* cap on the number of handler runs recorded (two suffice for the program)
MaxSignals == 3
\* cap on the number of sleeps counted after the flag was raised
MaxSleeps == 3

(* ------------------------------------------------------------- constants *)
EXIT_SUCCESS == 0
EXIT_FAILURE == 1
\* enum NC_VERB_LEVEL of libnetconf
NC_VERB_ERROR == 0
NC_VERB_DEBUG == 3
\* a null pointer (getenv() result, datastore handle)
NULL == 0
\* getenv() == NULL, as opposed to any string
NullStr == <<"NULL">>
\* "no -v option seen yet"
NoArg == <<"none">>

Digits == {"0", "1", "2", "3", "4", "5", "6", "7", "8", "9"}
DigitVal == [c \in Digits |->
               CASE c = "0" -> 0 [] c = "1" -> 1 [] c = "2" -> 2 [] c = "3" -> 3
                 [] c = "4" -> 4 [] c = "5" -> 5 [] c = "6" -> 6 [] c = "7" -> 7
                 [] c = "8" -> 8 [] c = "9" -> 9]

(* ------------------------------------------------------------------ atoi *)
RECURSIVE AtoiDigits(_, _)
\* the decimal digits at the front of s, accumulated on acc; stops at the
\* first character that is no digit
AtoiDigits(s, acc) ==
    IF s = <<>> \/ Head(s) \notin Digits
    THEN acc
    ELSE AtoiDigits(Tail(s), acc * 10 + DigitVal[Head(s)])

RECURSIVE Atoi(_)
\* atoi(3): leading blanks, an optional sign, then digits; 0 without digits
Atoi(s) ==
    IF s = <<>> THEN 0
    ELSE IF Head(s) = " " THEN Atoi(Tail(s))
    ELSE IF Head(s) = "-" THEN 0 - AtoiDigits(Tail(s), 0)
    ELSE IF Head(s) = "+" THEN AtoiDigits(Tail(s), 0)
    ELSE AtoiDigits(s, 0)

(* ----------------------------------------------------------- getopt_long *)
\* argv elements the model draws from
TokF == <<"-", "f">>
TokH == <<"-", "h">>
TokV == <<"-", "v">>
TokX == <<"-", "x">>
TokV7 == <<"-", "v", "7">>
TokFH == <<"-", "f", "h">>
TokNeg1 == <<"-", "1">>
Tok2 == <<"2">>
TokHelp == <<"-", "-", "help">>
TokDashDash == <<"-", "-">>
Tokens == {TokF, TokH, TokV, TokX, TokV7, TokFH, TokNeg1, Tok2,
           TokHelp, TokDashDash}

\* values of the verbosity environment variable the model draws from
EnvValues == {NullStr, <<"2">>, <<"-", "1">>}

\* an element that getopt scans as options: "-" followed by something
IsOption(t) == Len(t) >= 2 /\ t[1] = "-"
IsLongOption(t) == Len(t) >= 3 /\ t[1] = "-" /\ t[2] = "-"

RECURSIVE SkipNonOptions(_)
\* GNU getopt permutes argv: elements that are no options are passed over
SkipNonOptions(a) ==
    IF a = <<>> \/ IsOption(Head(a)) THEN a ELSE SkipNonOptions(Tail(a))

\* const struct option longopts[]: name -> (has_arg, val)
longopts == [help |-> [has_arg |-> FALSE, val |-> "h"],
             foreground |-> [has_arg |-> FALSE, val |-> "f"],
             verbose |-> [has_arg |-> TRUE, val |-> "v"]]

\* optstring "fhv:": option character -> takes an argument
optstring == [f |-> FALSE, h |-> FALSE, v |-> TRUE]

GetoptResult(r, o, a) == [ret |-> r, optarg |-> o, rest |-> a]

\* One call of getopt_long() on the arguments not yet scanned: the option
\* character returned ("EOF" for -1, "?" for an unknown option or a missing
\* argument), optarg, and the arguments left to scan.  A cluster "-fh" is
\* scanned one character per call; the rest of the cluster stays at the
\* front as "-h".
GetoptLong(args) ==
    LET a == SkipNonOptions(args) IN
    IF a = <<>> \/ Head(a) = TokDashDash
    THEN GetoptResult("EOF", NullStr, <<>>)
    ELSE LET t == Head(a) IN
         IF IsLongOption(t)
         THEN IF t[3] \notin DOMAIN longopts
              THEN GetoptResult("?", NullStr, Tail(a))
              ELSE IF ~longopts[t[3]].has_arg
              THEN GetoptResult(longopts[t[3]].val, NullStr, Tail(a))
              ELSE IF Tail(a) = <<>>
              THEN GetoptResult("?", NullStr, <<>>)
              ELSE GetoptResult(longopts[t[3]].val, Head(Tail(a)), Tail(Tail(a)))
         ELSE LET c == t[2]
                  more == SubSeq(t, 3, Len(t))
                  next == IF more = <<>> THEN Tail(a)
                          ELSE <<(<<"-">> \o more)>> \o Tail(a)
              IN IF c \notin DOMAIN optstring
                 THEN GetoptResult("?", NullStr, next)
                 ELSE IF ~optstring[c]
                 THEN GetoptResult(c, NullStr, next)
                 ELSE IF more # <<>>
                 THEN GetoptResult(c, more, Tail(a))
                 ELSE IF Tail(a) = <<>>
                 THEN GetoptResult("?", NullStr, <<>>)
                 ELSE GetoptResult(c, Head(Tail(a)), Tail(Tail(a)))

(* ----------------------------------------------------------------- state *)
VARIABLES
    pc,          \* position of the main program in main()
    status,      \* "running" or "exited"
    exitCode,    \* the process exit status, -1 while running
    exitVia,     \* "none", "usage" (print_usage), "return" (main returns),
                 \* "handler" (exit() inside signal_handler)
    mainloop,    \* volatile int mainloop
    args,        \* argv elements getopt_long has not scanned yet
    env,         \* getenv(ENVIRONMENT_VERBOSE)
    verbose,     \* int verbose
    daemonize,   \* int daemonize
    retval,      \* int retval
    ds,          \* struct { server; server_id } ds
    installed,   \* signals whose disposition is signal_handler
    calls,       \* the library and system calls made so far, in order
    errors,      \* number of nc_verb_error() calls
    delivered,   \* number of runs of signal_handler
    sleeps,      \* number of sleep(1) calls that returned with the flag raised
    lastV,       \* optarg of the last -v option scanned, NoArg if none
    helpSupplied,\* argv holds an element -h or --help among its flags
    helpScanned  \* argv holds -h or --help where getopt scans options

vars == <<pc, status, exitCode, exitVia, mainloop, args, env, verbose,
          daemonize, retval, ds, installed, calls, errors, delivered, sleeps,
          lastV, helpSupplied, helpScanned>>

\* one call: the function, its string argument ("" if none), its integer or
\* pointer argument (0 if none) and the value it returned
Call(fn, str, arg, ret) == [fn |-> fn, str |-> str, arg |-> arg, ret |-> ret]
CallsOf(fn) == {i \in DOMAIN calls : calls[i].fn = fn}
Called(fn) == CallsOf(fn) # {}

RECURSIVE ArgLists(_)
\* all argument lists of at most n elements
ArgLists(n) ==
    IF n = 0 THEN {<<>>}
    ELSE LET shorter == ArgLists(n - 1) IN
         shorter \cup {<<t>> \o a : t \in Tokens, a \in {b \in shorter : Len(b) = n - 1}}

\* argv holds -h or --help as an element, among the flags: "--" ends the
\* flags, and what follows it is an operand
HelpElement(a) ==
    \E i \in DOMAIN a : /\ a[i] \in {TokH, TokHelp}
                         /\ \A j \in 1..(i - 1) : a[j] # TokDashDash

RECURSIVE ClusterHasHelp(_)
\* the option characters of one short-option element, up to the first one
\* that takes the rest as its argument, include h
ClusterHasHelp(chars) ==
    IF chars = <<>> THEN FALSE
    ELSE IF Head(chars) = "h" THEN TRUE
    ELSE IF Head(chars) = "v" THEN FALSE
    ELSE ClusterHasHelp(Tail(chars))

RECURSIVE HelpInOptionPosition(_)
\* argv holds -h or --help at a place where options are scanned: not as the
\* argument of a preceding -v/--verbose and not after the terminator "--"
HelpInOptionPosition(a) ==
    IF a = <<>> THEN FALSE
    ELSE LET t == Head(a) IN
         IF ~IsOption(t) THEN HelpInOptionPosition(Tail(a))
         ELSE IF t = TokDashDash THEN FALSE
         ELSE IF IsLongOption(t)
         THEN \/ t[3] = "help"
              \/ HelpInOptionPosition(IF t[3] = "verbose" /\ Tail(a) # <<>>
                                      THEN Tail(Tail(a)) ELSE Tail(a))
         ELSE \/ ClusterHasHelp(Tail(t))
              \/ HelpInOptionPosition(IF t[Len(t)] = "v" /\ Tail(a) # <<>>
                                         /\ \A i \in 2..(Len(t) - 1) : t[i] # "v"
                                      THEN Tail(Tail(a)) ELSE Tail(a))

\* the state at process start, for an argument list of at most n elements
InitWith(n) ==
    /\ pc = "getenv"
    /\ status = "running"
    /\ exitCode = -1
    /\ exitVia = "none"
    /\ mainloop = 0
    /\ args \in ArgLists(n)
    /\ env \in EnvValues
    /\ verbose = 0
    /\ daemonize = 1
    /\ retval = EXIT_SUCCESS
    /\ ds = [server |-> NULL, server_id |-> -1]
    /\ installed = {}
    /\ calls = <<>>
    /\ errors = 0
    /\ delivered = 0
    /\ sleeps = 0
    /\ lastV = NoArg
    /\ helpSupplied = HelpElement(args)
    /\ helpScanned = HelpInOptionPosition(args)

Init == InitWith(MaxArgs)

\* exit(code), or main returning code
Exit(code, via) ==
    /\ status' = "exited"
    /\ exitCode' = code
    /\ exitVia' = via

Running == status = "running"
StayRunning == UNCHANGED <<status, exitCode, exitVia>>

(* -------------------------------------------------------- option parsing *)
\* lines 117-123: the default verbosity from the environment
GetEnv ==
    /\ Running /\ pc = "getenv"
    /\ verbose' = IF env = NullStr THEN NC_VERB_ERROR ELSE Atoi(env)
    /\ pc' = "getopt"
    /\ StayRunning
    /\ UNCHANGED <<mainloop, args, env, daemonize, retval, ds, installed, calls,
                   errors, delivered, sleeps, lastV, helpSupplied, helpScanned>>

\* print_usage() without its exit(0): the caller's break goes on parsing
print_usage_NoExit ==
    /\ StayRunning
    /\ UNCHANGED <<pc, mainloop, env, verbose, daemonize, retval, ds, installed,
                   calls, errors, delivered, sleeps, lastV, helpSupplied,
                   helpScanned>>

\* print_usage(): prints the usage and exits 0
print_usage ==
    /\ Exit(EXIT_SUCCESS, "usage")
    /\ UNCHANGED <<pc, mainloop, env, verbose, daemonize, retval, ds, installed,
                   calls, errors, delivered, sleeps, lastV, helpSupplied,
                   helpScanned>>

\* case 'f'
OptForeground ==
    /\ Running /\ pc = "getopt"
    /\ LET g == GetoptLong(args) IN
         /\ g.ret = "f"
         /\ args' = g.rest
         /\ daemonize' = 0
    /\ StayRunning
    /\ UNCHANGED <<pc, mainloop, env, verbose, retval, ds, installed, calls,
                   errors, delivered, sleeps, lastV, helpSupplied, helpScanned>>

\* case 'h'
OptHelp ==
    /\ Running /\ pc = "getopt"
    /\ LET g == GetoptLong(args) IN
         /\ g.ret = "h"
         /\ args' = g.rest
    /\ print_usage

\* case 'v'
OptVerbose ==
    /\ Running /\ pc = "getopt"
    /\ LET g == GetoptLong(args) IN
         /\ g.ret = "v"
         /\ args' = g.rest
         /\ verbose' = Atoi(g.optarg)
         /\ lastV' = g.optarg
    /\ StayRunning
    /\ UNCHANGED <<pc, mainloop, env, daemonize, retval, ds, installed, calls,
                   errors, delivered, sleeps, helpSupplied, helpScanned>>

\* default: ('?': an unknown option or a missing argument)
OptDefault ==
    /\ Running /\ pc = "getopt"
    /\ LET g == GetoptLong(args) IN
         /\ g.ret \notin {"f", "h", "v", "EOF"}
         /\ args' = g.rest
    /\ print_usage

\* getopt_long() returns -1: the loop ends
OptEnd ==
    /\ Running /\ pc = "getopt"
    /\ LET g == GetoptLong(args) IN
         /\ g.ret = "EOF"
         /\ args' = g.rest
    /\ pc' = "sigaction_SIGINT"
    /\ StayRunning
    /\ UNCHANGED <<mainloop, env, verbose, daemonize, retval, ds, installed,
                   calls, errors, delivered, sleeps, lastV, helpSupplied,
                   helpScanned>>

(* ------------------------------------------------------- signal handling *)
\* the sigaction() calls of lines 149-153, in order
SigOrder == <<"SIGINT", "SIGQUIT", "SIGABRT", "SIGTERM", "SIGKILL">>
SigPc(i) == IF i > Len(SigOrder) THEN "nc_verbosity"
            ELSE IF i = 1 THEN "sigaction_SIGINT"
            ELSE IF i = 2 THEN "sigaction_SIGQUIT"
            ELSE IF i = 3 THEN "sigaction_SIGABRT"
            ELSE IF i = 4 THEN "sigaction_SIGTERM"
            ELSE "sigaction_SIGKILL"

\* one sigaction(sig, &action, NULL); the kernel refuses a handler for
\* SIGKILL (EINVAL) and the result is not looked at
Sigaction(i) ==
    /\ Running /\ pc = SigPc(i)
    /\ installed' = IF SigOrder[i] = "SIGKILL" THEN installed
                    ELSE installed \cup {SigOrder[i]}
    /\ pc' = SigPc(i + 1)
    /\ StayRunning
    /\ UNCHANGED <<mainloop, args, env, verbose, daemonize, retval, ds, calls,
                   errors, delivered, sleeps, lastV, helpSupplied, helpScanned>>

\* the handler with the flag toggled on every run instead of the second strike
signal_handler_Toggle(sig) ==
    /\ mainloop' = 1 - mainloop
    /\ StayRunning
    /\ UNCHANGED errors

\* the handler whose default branch only breaks: any other signal is
\* ignored
signal_handler_DefaultBreaks(sig) ==
    IF sig \in {"SIGINT", "SIGTERM", "SIGQUIT", "SIGABRT", "SIGKILL"}
    THEN IF mainloop = 0
         THEN mainloop' = 1 /\ StayRunning /\ UNCHANGED errors
         ELSE errors' = errors + 1 /\ Exit(EXIT_FAILURE, "handler")
              /\ UNCHANGED mainloop
    ELSE StayRunning /\ UNCHANGED <<mainloop, errors>>

\* the handler that gives up on the first signal already
signal_handler_ExitOnFirst(sig) ==
    /\ errors' = errors + 1
    /\ Exit(EXIT_FAILURE, "handler")
    /\ UNCHANGED mainloop

\* the handler without the second strike: every run only raises the flag
signal_handler_NoSecondStrike(sig) ==
    /\ mainloop' = 1
    /\ StayRunning
    /\ UNCHANGED errors

\* void signal_handler(int sig)
signal_handler(sig) ==
    IF sig \in {"SIGINT", "SIGTERM", "SIGQUIT", "SIGABRT", "SIGKILL"}
    THEN IF mainloop = 0
         THEN \* first attempt
              /\ mainloop' = 1
              /\ StayRunning
              /\ UNCHANGED errors
         ELSE \* second attempt
              /\ errors' = errors + 1
              /\ Exit(EXIT_FAILURE, "handler")
              /\ UNCHANGED mainloop
    ELSE /\ errors' = errors + 1
         /\ Exit(EXIT_FAILURE, "handler")
         /\ UNCHANGED mainloop

\* a signal with an installed handler arrives: the handler runs between two
\* steps of the main program
Deliver ==
    /\ Running
    /\ delivered < MaxSignals
    /\ \E sig \in installed : signal_handler(sig)
    /\ delivered' = delivered + 1
    /\ UNCHANGED <<pc, args, env, verbose, daemonize, retval, ds, installed,
                   calls, sleeps, lastV, helpSupplied, helpScanned>>

(* ------------------------------------------------ verbosity, daemonizing *)
\* the normalization with the upper test forgotten
Normalize_NoUpperClamp(v) ==
    IF v < NC_VERB_ERROR THEN NC_VERB_ERROR ELSE v

\* lines 158-165: the level handed to nc_verbosity()
Normalize(v) ==
    IF v < NC_VERB_ERROR THEN NC_VERB_ERROR
    ELSE IF v > NC_VERB_DEBUG THEN NC_VERB_DEBUG
    ELSE v

\* the frame of a step of main() that only makes calls and moves on
MainStep ==
    /\ StayRunning
    /\ UNCHANGED <<mainloop, args, env, verbose, daemonize, installed,
                   delivered, sleeps, lastV, helpSupplied, helpScanned>>

\* lines 155-165
SetVerbosity ==
    /\ Running /\ pc = "nc_verbosity"
    /\ calls' = Append(calls, Call("nc_verbosity", "", Normalize(verbose), 0))
    /\ pc' = "daemon"
    /\ MainStep
    /\ UNCHANGED <<retval, ds, errors>>

\* return (code) from main
Return(code) ==
    /\ Exit(code, "return")
    /\ UNCHANGED <<pc, mainloop, args, env, verbose, daemonize, installed,
                   delivered, sleeps, lastV, helpSupplied, helpScanned>>

\* the failed daemon() logged but not returned from: the bootstrap goes on
DaemonFail_NoReturn ==
    /\ Running /\ pc = "daemon" /\ daemonize = 1
    /\ calls' = Append(calls, Call("daemon", "", 0, -1))
    /\ errors' = errors + 1
    /\ pc' = "nc_init"
    /\ MainStep
    /\ UNCHANGED <<retval, ds>>

\* lines 168-172: daemon(0, 0) fails
DaemonFail ==
    /\ Running /\ pc = "daemon" /\ daemonize = 1
    /\ calls' = Append(calls, Call("daemon", "", 0, -1))
    /\ errors' = errors + 1
    /\ Return(EXIT_FAILURE)
    /\ UNCHANGED <<retval, ds>>

\* lines 168-173: daemon(0, 0) succeeds, the log goes to syslog
DaemonOK ==
    /\ Running /\ pc = "daemon" /\ daemonize = 1
    /\ calls' = calls \o <<Call("daemon", "", 0, 0),
                           Call("openlog", "LOG_PID", 0, 0)>>
    /\ pc' = "nc_init"
    /\ MainStep
    /\ UNCHANGED <<retval, ds, errors>>

\* the foreground openlog() without LOG_PERROR
Foreground_NoPerror ==
    /\ Running /\ pc = "daemon" /\ daemonize # 1
    /\ calls' = Append(calls, Call("openlog", "LOG_PID", 0, 0))
    /\ pc' = "nc_init"
    /\ MainStep
    /\ UNCHANGED <<retval, ds, errors>>

\* lines 174-176: foreground, the log goes to syslog and stderr
Foreground ==
    /\ Running /\ pc = "daemon" /\ daemonize # 1
    /\ calls' = Append(calls, Call("openlog", "LOG_PID|LOG_PERROR", 0, 0))
    /\ pc' = "nc_init"
    /\ MainStep
    /\ UNCHANGED <<retval, ds, errors>>

(* ------------------------------------------------------ library bootstrap *)
\* what the library calls may return
Handles == {1, 2}
StatusCodes == {0, 1}
NcInitResults == {-1, 0}
NcdsInitResults == {-1, 0, 2}

\* the failure branch with the goto forgotten: the bootstrap goes on
FailToCleanup_NoGoto ==
    /\ retval' = EXIT_FAILURE
    /\ errors' = errors + 1
    /\ pc' = IF pc = "new_transapi" THEN "file_set_path"
             ELSE IF pc = "ncds_init" THEN "consolidate"
             ELSE IF pc = "consolidate" THEN "device_init"
             ELSE "loop"

\* nc_verb_error(...); retval = EXIT_FAILURE; goto cleanup;
FailToCleanup ==
    /\ retval' = EXIT_FAILURE
    /\ errors' = errors + 1
    /\ pc' = "cleanup"

\* a call whose result is not looked at
Unchecked(fn, str, arg, next) ==
    /\ \E r \in StatusCodes : calls' = Append(calls, Call(fn, str, arg, r))
    /\ pc' = next
    /\ MainStep
    /\ UNCHANGED <<retval, ds, errors>>

\* lines 182-185: nc_init() fails
NcInitFail ==
    /\ Running /\ pc = "nc_init"
    /\ \E r \in NcInitResults :
         /\ r < 0
         /\ calls' = Append(calls, Call("nc_init", "", 0, r))
    /\ errors' = errors + 1
    /\ Return(EXIT_FAILURE)
    /\ UNCHANGED <<retval, ds>>

\* line 182: nc_init() succeeds
NcInitOK ==
    /\ Running /\ pc = "nc_init"
    /\ \E r \in NcInitResults :
         /\ ~(r < 0)
         /\ calls' = Append(calls, Call("nc_init", "", 0, r))
    /\ pc' = "add_model_1"
    /\ MainStep
    /\ UNCHANGED <<retval, ds, errors>>

\* lines 197 and 209: ncds_add_model(), called twice with the same model
AddModel ==
    /\ Running /\ pc \in {"add_model_1", "add_model_2"}
    /\ Unchecked("ncds_add_model", "ietf-x509-cert-to-name.yin", 0,
                 IF pc = "add_model_1" THEN "new_transapi" ELSE "feature_ssh")

\* lines 198-206: ds.server = ncds_new_transapi_static(...)
NewTransapiStatic ==
    /\ Running /\ pc = "new_transapi"
    /\ \E h \in Handles \cup {NULL} :
         /\ calls' = Append(calls, Call("ncds_new_transapi_static",
                                        "ietf-netconf-server.yin", 0, h))
         /\ ds' = [ds EXCEPT !.server = h]
         /\ IF h = NULL
            THEN FailToCleanup
            ELSE /\ pc' = "file_set_path"
                 /\ UNCHANGED <<retval, errors>>
    /\ MainStep

\* lines 207-208: ncds_file_set_path(ds.server, ...)
FileSetPath ==
    /\ Running /\ pc = "file_set_path"
    /\ Unchecked("ncds_file_set_path", "datastore.xml", ds.server, "add_model_2")

\* lines 210-211: ncds_feature_enable("ietf-netconf-server", ...) twice
FeatureEnable ==
    /\ Running /\ pc \in {"feature_ssh", "feature_inbound_ssh"}
    /\ IF pc = "feature_ssh"
       THEN Unchecked("ncds_feature_enable", "ssh", 0, "feature_inbound_ssh")
       ELSE Unchecked("ncds_feature_enable", "inbound-ssh", 0, "ncds_init")

\* ncds_init() handed a null handle instead of the datastore
NcdsInitArg_Null == NULL

\* the argument main() hands to ncds_init()
NcdsInitArg == ds.server

\* lines 212-218: ds.server_id = ncds_init(ds.server)
\* (the error message of line 216 names ds.ofc_id, a member the struct does
\* not have; the model takes the message as logged)
NcdsInit ==
    /\ Running /\ pc = "ncds_init"
    /\ \E id \in NcdsInitResults :
         /\ calls' = Append(calls, Call("ncds_init", "", NcdsInitArg, id))
         /\ ds' = [ds EXCEPT !.server_id = id]
         /\ IF id < 0
            THEN FailToCleanup
            ELSE /\ pc' = "consolidate"
                 /\ UNCHANGED <<retval, errors>>
    /\ MainStep

\* lines 220-224: ncds_consolidate()
Consolidate ==
    /\ Running /\ pc = "consolidate"
    /\ \E r \in StatusCodes :
         /\ calls' = Append(calls, Call("ncds_consolidate", "", 0, r))
         /\ IF r # 0
            THEN FailToCleanup
            ELSE /\ pc' = "device_init"
                 /\ UNCHANGED <<retval, errors>>
    /\ MainStep
    /\ UNCHANGED ds

\* lines 226-232: ncds_device_init(&(ds.server_id), NULL, 1)
DeviceInit ==
    /\ Running /\ pc = "device_init"
    /\ \E r \in StatusCodes :
         /\ calls' = Append(calls, Call("ncds_device_init", "", ds.server_id, r))
         /\ IF r # 0
            THEN FailToCleanup
            ELSE /\ pc' = "loop"
                 /\ UNCHANGED <<retval, errors>>
    /\ MainStep
    /\ UNCHANGED ds

(* ------------------------------------------------- poll loop and cleanup *)
\* the loop condition with the negation forgotten: while (mainloop)
LoopCondition_NoNegation == mainloop # 0

\* the loop that never reads the flag: while (1)
LoopCondition_Always == TRUE

\* while (!mainloop)
LoopCondition == mainloop = 0

\* line 234: the loop condition is evaluated
LoopCheck ==
    /\ Running /\ pc = "loop"
    /\ pc' = IF LoopCondition THEN "sleep" ELSE "cleanup"
    /\ MainStep
    /\ UNCHANGED <<retval, ds, calls, errors>>

\* line 238: sleep(1) returns, after a second or interrupted by a signal
Sleep ==
    /\ Running /\ pc = "sleep"
    /\ sleeps < MaxSleeps
    /\ sleeps' = IF mainloop # 0 THEN sleeps + 1 ELSE sleeps
    /\ pc' = "loop"
    /\ StayRunning
    /\ UNCHANGED <<mainloop, args, env, verbose, daemonize, retval, ds,
                   installed, calls, errors, delivered, lastV, helpSupplied,
                   helpScanned>>

\* the cleanup label without its nc_close()
Cleanup_NoClose ==
    /\ Running /\ pc = "cleanup"
    /\ pc' = "return"
    /\ MainStep
    /\ UNCHANGED <<retval, ds, calls, errors>>

\* lines 242-245: nc_close()
Cleanup ==
    /\ Running /\ pc = "cleanup"
    /\ calls' = Append(calls, Call("nc_close", "", 0, 0))
    /\ pc' = "return"
    /\ MainStep
    /\ UNCHANGED <<retval, ds, errors>>

\* line 247: return (retval)
ReturnRetval ==
    /\ Running /\ pc = "return"
    /\ Return(retval)
    /\ UNCHANGED <<retval, ds, calls, errors>>

(* --------------------------------------------------------- specification *)
\* a step of the main program
Main ==
    \/ GetEnv
    \/ OptForeground
    \/ OptHelp
    \/ OptVerbose
    \/ OptDefault
    \/ OptEnd
    \/ \E i \in DOMAIN SigOrder : Sigaction(i)
    \/ SetVerbosity
    \/ DaemonFail
    \/ DaemonOK
    \/ Foreground
    \/ NcInitFail
    \/ NcInitOK
    \/ AddModel
    \/ NewTransapiStatic
    \/ FileSetPath
    \/ FeatureEnable
    \/ NcdsInit
    \/ Consolidate
    \/ DeviceInit
    \/ LoopCheck
    \/ Sleep
    \/ Cleanup
    \/ ReturnRetval

Next == Main \/ Deliver

Spec == Init /\ [][Next]_vars

\* The main program is never suspended for ever: every library call and
\* every sleep(1) returns.  Nothing is assumed about signals arriving.
FairSpec == InitWith(MaxArgsFair) /\ [][Next]_vars /\ WF_vars(Main)

(* ------------------------------------------------------------------- C1 *)
Exited == status = "exited"
InPollLoop == pc \in {"loop", "sleep"}
HandlerRuns == delivered' # delivered

\* C1: a first termination signal (the handler runs while mainloop is 0)
\* sets the flag to 1 and leaves the process running where it was; with the
\* flag at 1 the loop condition sends the program to the cleanup the next
\* time it is evaluated, so that at most one sleep(1) returns with the flag
\* raised; from there the program calls nc_close() and returns, and the
\* process does terminate.
C1_FirstSignalStopsLoop ==
    /\ [][(HandlerRuns /\ mainloop = 0)
            => (mainloop' = 1 /\ status' = "running" /\ pc' = pc)]_vars
    /\ [][(pc = "loop" /\ mainloop = 1 /\ pc' # pc) => pc' = "cleanup"]_vars
    /\ [](sleeps <= 1)
    /\ [][(pc = "cleanup" /\ pc' # pc)
            => (pc' = "return" /\ calls' = Append(calls, Call("nc_close", "", 0, 0)))]_vars
    /\ []((Exited /\ exitVia = "return" /\ pc = "return") => Called("nc_close"))
    /\ ((InPollLoop /\ mainloop = 1) ~> Exited)

\* the signal arrived during the loop, one more sleep(1) returned, the loop
\* ended and main returned 0 after nc_close()
C1_Witness ==
    /\ delivered = 1 /\ mainloop = 1 /\ sleeps = 1
    /\ Exited /\ exitVia = "return" /\ exitCode = EXIT_SUCCESS
    /\ Called("nc_close")

(* ------------------------------------------------------------------- C2 *)
\* C2: a termination signal handled while mainloop is already 1 ends the
\* process at once with EXIT_FAILURE, by exit() inside the handler, whatever
\* the main program was doing; no state has two handler runs behind it and
\* the process still running.
C2_SecondSignalForcesExit ==
    /\ [][(HandlerRuns /\ mainloop = 1)
            => (status' = "exited" /\ exitCode' = EXIT_FAILURE
                /\ exitVia' = "handler" /\ pc' = pc)]_vars
    /\ [](delivered >= 2 => (Exited /\ exitCode = EXIT_FAILURE /\ exitVia = "handler"))

\* the second signal arrived in the cleanup, after nc_close()
C2_Witness ==
    /\ delivered = 2 /\ Exited /\ exitVia = "handler" /\ exitCode = EXIT_FAILURE
    /\ pc = "return" /\ Called("nc_close")

(* ------------------------------------------------------------------- C3 *)
\* the bootstrap steps and what makes a call of each a failure
BootstrapFns == {"nc_init", "ncds_add_model", "ncds_new_transapi_static",
                 "ncds_file_set_path", "ncds_feature_enable", "ncds_init",
                 "ncds_consolidate", "ncds_device_init"}
CallFailed(c) ==
    /\ c.fn \in BootstrapFns
    /\ IF c.fn \in {"nc_init", "ncds_init"} THEN c.ret < 0
       ELSE IF c.fn = "ncds_new_transapi_static" THEN c.ret = NULL
       ELSE c.ret # 0
SomeStepFailed == \E i \in DOMAIN calls : CallFailed(calls[i])
NcCloseCalls == Cardinality(CallsOf("nc_close"))

\* C3: whichever bootstrap step fails, by the time main has returned
\* nc_verb_error() was called and nc_close() was called exactly once.
C3_AnyFailureLogsAndCleansUp ==
    (Exited /\ exitVia = "return" /\ SomeStepFailed)
        => (errors >= 1 /\ NcCloseCalls = 1)

(* ------------------------------------------------------------------- C4 *)
\* the order of section 4.4
BootstrapOrder == <<"nc_init", "ncds_add_model", "ncds_new_transapi_static",
                    "ncds_file_set_path", "ncds_feature_enable", "ncds_init",
                    "ncds_consolidate", "ncds_device_init">>

RECURSIVE StepsOf(_)
\* the bootstrap steps of a call sequence: its bootstrap calls, consecutive
\* calls of one function (the two feature names) counted as one step
StepsOf(cs) ==
    IF cs = <<>> THEN <<>>
    ELSE LET rest == StepsOf(Tail(cs)) IN
         IF Head(cs).fn \notin BootstrapFns THEN rest
         ELSE IF rest # <<>> /\ Head(rest) = Head(cs).fn THEN rest
         ELSE <<Head(cs).fn>> \o rest

IsPrefix(a, b) == Len(a) <= Len(b) /\ a = SubSeq(b, 1, Len(a))

\* C4: the bootstrap steps made so far are always an initial part of the
\* order nc_init, ncds_add_model, ncds_new_transapi_static,
\* ncds_file_set_path, ncds_feature_enable, ncds_init, ncds_consolidate,
\* ncds_device_init, each step occurring once.
C4_BootstrapOrder == IsPrefix(StepsOf(calls), BootstrapOrder)

(* ------------------------------------------------------------------- C5 *)
BootstrapSucceeded ==
    /\ ~SomeStepFailed
    /\ \E i \in CallsOf("ncds_device_init") : calls[i].ret = 0

\* C5: the exit code is 0 exactly on help output or on a return from main
\* after a bootstrap in which every step succeeded; no run in which a
\* bootstrap step failed ends with exit code 0.
C5_ExitCodes ==
    Exited =>
        /\ (exitCode = 0) <=> (\/ exitVia = "usage"
                               \/ exitVia = "return" /\ BootstrapSucceeded)
        /\ SomeStepFailed => exitCode # 0

(* ------------------------------------------------------------------- C6 *)
FailedAt(i) == CallFailed(calls[i])
NoBootstrapCallAfter(i) == \A j \in DOMAIN calls : j > i => calls[j].fn \notin BootstrapFns

\* C6: once ncds_new_transapi_static() has returned NULL an error has been
\* logged, retval is EXIT_FAILURE, none of ncds_file_set_path,
\* ncds_feature_enable, ncds_init, ncds_consolidate, ncds_device_init is
\* called, the poll loop is never entered and the process exits with
\* failure; the same holds after ncds_init() or ncds_consolidate() failed.
C6_FailFastAfterDatastoreFailure ==
    \A i \in DOMAIN calls :
        (FailedAt(i) /\ calls[i].fn \in {"ncds_new_transapi_static", "ncds_init",
                                         "ncds_consolidate"})
            => /\ errors >= 1
               /\ retval = EXIT_FAILURE
               /\ NoBootstrapCallAfter(i)
               /\ ~InPollLoop /\ pc \in {"cleanup", "return"}
               /\ sleeps = 0
               /\ Exited => exitCode = EXIT_FAILURE

\* the datastore could not be constructed; main logged, cleaned up and
\* returned EXIT_FAILURE
C6_Witness ==
    /\ Exited /\ exitVia = "return" /\ exitCode = EXIT_FAILURE
    /\ Len(calls) >= 2
    /\ calls[Len(calls)].fn = "nc_close"
    /\ calls[Len(calls) - 1] = Call("ncds_new_transapi_static",
                                    "ietf-netconf-server.yin", 0, NULL)

(* ------------------------------------------------------------------- C7 *)
\* the program never got past option parsing: no handler installed, no
\* daemon(), no library call; if it has exited, with code 0
StoppedInParsing ==
    /\ pc \in {"getenv", "getopt"}
    /\ installed = {}
    /\ calls = <<>>
    /\ Exited => exitCode = EXIT_SUCCESS

\* C7 as stated: with -h or --help anywhere among the flags of the argument
\* list the process never gets past option parsing and exits with code 0.
C7_HelpAnywhere == helpSupplied => StoppedInParsing

\* C7 amended: with -h or --help at a place where getopt_long scans it as
\* an option (not taken as the argument of a preceding -v/--verbose, not
\* after "--"), whatever precedes or follows it, the process never gets past
\* option parsing - no handler, no daemon(), no library call - and its only
\* exit is print_usage's exit(0).
C7_HelpAsOptionExitsBeforeBootstrap ==
    helpScanned => (StoppedInParsing /\ (Exited => exitVia = "usage"))

\* -f and -v 7 were scanned, then the help option ended the process with
\* code 0, with arguments still unscanned or not
C7_Witness ==
    /\ helpScanned /\ Exited /\ exitVia = "usage" /\ exitCode = EXIT_SUCCESS
    /\ daemonize = 0 /\ lastV = <<"7">>
    /\ installed = {} /\ calls = <<>>

(* ------------------------------------------------------------------- C8 *)
\* at the call of ncds_device_init the handle and the id are the ones the
\* library returned, in this order: construction, init on that handle,
\* consolidation
DatastoreValid ==
    \E i \in CallsOf("ncds_new_transapi_static") :
    \E j \in CallsOf("ncds_init") :
    \E k \in CallsOf("ncds_consolidate") :
        /\ i < j /\ j < k
        /\ ds.server # NULL /\ calls[i].ret = ds.server
        /\ calls[j].arg = ds.server
        /\ ds.server_id >= 0 /\ calls[j].ret = ds.server_id
        /\ calls[k].ret = 0

\* C8: whenever ncds_device_init is about to be called, and whenever it has
\* been called, ds.server is the non-NULL handle ncds_new_transapi_static
\* returned, ds.server_id is the non-negative id ncds_init returned for that
\* handle and ncds_consolidate has returned 0; the id is what the call is
\* handed; and once ncds_new_transapi_static (ncds_init) has returned,
\* ds.server (ds.server_id) keeps the value it was given.
C8_DatastoreValidBeforeDeviceInit ==
    /\ []((pc = "device_init" \/ Called("ncds_device_init")) => DatastoreValid)
    /\ [](\A d \in CallsOf("ncds_device_init") : calls[d].arg = ds.server_id)
    /\ [](~Called("ncds_new_transapi_static") => ds.server = NULL)
    /\ [](~Called("ncds_init") => ds.server_id = -1)
    /\ [][Called("ncds_new_transapi_static") => ds.server' = ds.server]_vars
    /\ [][Called("ncds_init") => ds.server_id' = ds.server_id]_vars

\* ncds_device_init was called on datastore 2 with id 2 and succeeded
C8_Witness ==
    /\ ds = [server |-> 2, server_id |-> 2]
    /\ calls # <<>>
    /\ calls[Len(calls)] = Call("ncds_device_init", "", 2, 0)

(* ------------------------------------------------------------------- C9 *)
\* the verbosity asked for: the last -v argument if there is one, else the
\* environment value, else NC_VERB_ERROR
RequestedVerbosity ==
    IF lastV # NoArg THEN Atoi(lastV)
    ELSE IF env # NullStr THEN Atoi(env)
    ELSE NC_VERB_ERROR

\* C9: nc_verbosity is called at most once, with a level in
\* NC_VERB_ERROR..NC_VERB_DEBUG: NC_VERB_ERROR if the requested value is
\* below the range, NC_VERB_DEBUG if it is above, the requested value itself
\* otherwise; the requested value is that of the last -v scanned, and that of
\* the environment variable only when no -v was given.
C9_VerbosityClamped ==
    /\ Cardinality(CallsOf("nc_verbosity")) <= 1
    /\ \A i \in CallsOf("nc_verbosity") :
         LET level == calls[i].arg
             v == RequestedVerbosity
         IN /\ level >= NC_VERB_ERROR /\ level <= NC_VERB_DEBUG
            /\ v < NC_VERB_ERROR => level = NC_VERB_ERROR
            /\ v > NC_VERB_DEBUG => level = NC_VERB_DEBUG
            /\ (v >= NC_VERB_ERROR /\ v <= NC_VERB_DEBUG) => level = v

\* -v 7 against an environment value of 2: the level is NC_VERB_DEBUG
C9_Witness ==
    /\ lastV = <<"7">> /\ env = <<"2">>
    /\ \E i \in CallsOf("nc_verbosity") : calls[i].arg = NC_VERB_DEBUG

(* ------------------------------------------------------------------ C10 *)
\* C10: mainloop is 0 or 1; it is 0 until a handler is installed; a step
\* that is no run of the signal handler leaves it unchanged; the only change
\* is from 0 to 1, made by a handler run.
C10_FlagOnlyRaisedByHandler ==
    /\ [](mainloop \in {0, 1})
    /\ [](installed = {} => mainloop = 0)
    /\ [][~HandlerRuns => mainloop' = mainloop]_vars
    /\ [][mainloop' # mainloop => (HandlerRuns /\ mainloop = 0 /\ mainloop' = 1)]_vars

\* the flag was raised during the bootstrap and was still 1 when main
\* returned after the poll loop and the cleanup
C10_Witness ==
    /\ mainloop = 1 /\ delivered = 1 /\ sleeps = 0
    /\ Exited /\ exitVia = "return" /\ exitCode = EXIT_SUCCESS
    /\ Called("ncds_device_init") /\ Called("nc_close")

(* ------------------------------------------------------------------ C11 *)
DaemonFailed == \E i \in CallsOf("daemon") : calls[i].ret # 0

\* C11: daemon() is called only when daemonizing is on (no -f) and at most
\* once; once it has failed the process has exited from main with
\* EXIT_FAILURE after logging an error, the failed daemon() is the last call
\* made - no openlog, no nc_init, no later bootstrap step, no nc_close - and
\* the poll loop was never entered.
C11_DaemonFailureIsFatal ==
    /\ Cardinality(CallsOf("daemon")) <= 1
    /\ Called("daemon") => daemonize = 1
    /\ DaemonFailed =>
         /\ Exited /\ exitVia = "return" /\ exitCode = EXIT_FAILURE
         /\ errors >= 1
         /\ calls[Len(calls)].fn = "daemon"
         /\ ~Called("nc_init") /\ ~Called("nc_close") /\ ~Called("openlog")
         /\ \A i \in DOMAIN calls : calls[i].fn \notin BootstrapFns
         /\ pc = "daemon" /\ sleeps = 0

\* daemon() failed after the first signal had already raised the flag
C11_Witness ==
    /\ DaemonFailed /\ Exited /\ exitCode = EXIT_FAILURE
    /\ mainloop = 1 /\ daemonize = 1

(* ------------------------------------------------------------------ C12 *)
\* the openlog() option string for the value of daemonize
LogOptionsFor(d) == IF d = 1 THEN "LOG_PID" ELSE "LOG_PID|LOG_PERROR"

\* C12: daemonize changes only from 1 to 0 and only when getopt_long returns
\* 'f'; openlog is called at most once, before nc_init, with LOG_PID |
\* LOG_PERROR (syslog and stderr) in the foreground and LOG_PID (syslog
\* only) otherwise, and then right after a successful daemon(); nc_init is
\* never called without it.
C12_LogDestinationByForeground ==
    /\ [][daemonize' # daemonize
            => (daemonize = 1 /\ daemonize' = 0 /\ pc = "getopt"
                /\ GetoptLong(args).ret = "f")]_vars
    /\ [](Cardinality(CallsOf("openlog")) <= 1)
    /\ [](\A i \in CallsOf("openlog") :
            /\ calls[i].str = LogOptionsFor(daemonize)
            /\ daemonize = 1 => (i > 1 /\ calls[i - 1] = Call("daemon", "", 0, 0))
            /\ daemonize # 1 => ~Called("daemon")
            /\ \A j \in CallsOf("nc_init") : i < j)
    /\ [](Called("nc_init") => Called("openlog"))

\* foreground: openlog got LOG_PERROR and the bootstrap went on to the loop
C12_Witness ==
    /\ daemonize = 0
    /\ \E i \in CallsOf("openlog") : calls[i].str = "LOG_PID|LOG_PERROR"
    /\ InPollLoop

(* ------------------------------------------------------------------ C13 *)
\* signals main() installs no handler for
OtherSignals == {"SIGHUP", "SIGUSR1"}

\* signal_handler() run for a signal outside its case list.  main() itself
\* installs the handler for SIGINT, SIGQUIT, SIGABRT and SIGTERM only; the
\* function has external linkage, and this is the handler reached with any
\* other signal number.
DeliverOther ==
    /\ Running
    /\ installed # {}
    /\ delivered < MaxSignals
    /\ \E sig \in OtherSignals : signal_handler(sig)
    /\ delivered' = delivered + 1
    /\ UNCHANGED <<pc, args, env, verbose, daemonize, retval, ds, installed,
                   calls, sleeps, lastV, helpSupplied, helpScanned>>

\* the program with the handler reachable for every signal number
HandlerSpec == InitWith(MaxArgsFair) /\ [][Next \/ DeliverOther]_vars

\* C13: a run of signal_handler for a signal other than SIGINT, SIGTERM,
\* SIGQUIT, SIGABRT, SIGKILL logs an error and ends the process at once with
\* EXIT_FAILURE, whether mainloop is 0 or 1, and leaves mainloop as it was.
C13_OtherSignalExits ==
    [][DeliverOther
        => (/\ status' = "exited" /\ exitCode' = EXIT_FAILURE
            /\ exitVia' = "handler"
            /\ errors' = errors + 1
            /\ mainloop' = mainloop /\ pc' = pc)]_vars

\* the handler's very first run ended the process: the flag is still 0
C13_Witness ==
    /\ Exited /\ exitVia = "handler" /\ exitCode = EXIT_FAILURE
    /\ mainloop = 0 /\ delivered = 1

(* ------------------------------------------------------------------ C14 *)
\* the positions of main() from the first installed handler to the last
\* bootstrap step
PreLoopPcs == {"sigaction_SIGQUIT", "sigaction_SIGABRT", "sigaction_SIGTERM",
               "sigaction_SIGKILL", "nc_verbosity", "daemon", "nc_init",
               "add_model_1", "new_transapi", "file_set_path", "add_model_2",
               "feature_ssh", "feature_inbound_ssh", "ncds_init",
               "consolidate", "device_init"}

\* the bootstrap calls of a run that reaches the poll loop, as main() makes
\* them
BootstrapCallsOfMain ==
    <<"nc_init", "ncds_add_model", "ncds_new_transapi_static",
      "ncds_file_set_path", "ncds_add_model", "ncds_feature_enable",
      "ncds_feature_enable", "ncds_init", "ncds_consolidate",
      "ncds_device_init">>

RECURSIVE BootstrapCalls(_)
\* the bootstrap functions of a call sequence, in order
BootstrapCalls(cs) ==
    IF cs = <<>> THEN <<>>
    ELSE IF Head(cs).fn \in BootstrapFns
    THEN <<Head(cs).fn>> \o BootstrapCalls(Tail(cs))
    ELSE BootstrapCalls(Tail(cs))

\* the flag is up and no sleep(1) has been or is being run with it up
RaisedBeforeSleeping == mainloop = 1 /\ sleeps = 0 /\ pc # "sleep"

\* C14: a first termination signal handled between the installation of the
\* handlers and the end of the bootstrap raises the flag and changes nothing
\* else: main stays where it is, running, with its calls, ds, retval and
\* error count untouched.  From then on the flag stays 1 and sleep(1) is
\* never run: before the loop no sleep has happened, and a raised flag with
\* no sleep so far is kept by every step.  The bootstrap calls made are
\* always an initial part of main's own sequence, and a run that ends by
\* main returning with the flag raised early and every step succeeded made
\* all of them, called nc_close once and exits with code 0.
C14_EarlySignalKeptThroughBootstrap ==
    /\ [][(HandlerRuns /\ mainloop = 0 /\ pc \in PreLoopPcs)
            => (/\ mainloop' = 1 /\ status' = "running"
                /\ UNCHANGED <<pc, calls, ds, retval, errors, sleeps>>)]_vars
    /\ [](pc \in PreLoopPcs => sleeps = 0)
    /\ [][RaisedBeforeSleeping => RaisedBeforeSleeping']_vars
    /\ [](IsPrefix(BootstrapCalls(calls), BootstrapCallsOfMain))
    /\ []((Exited /\ exitVia = "return" /\ RaisedBeforeSleeping
           /\ BootstrapSucceeded)
          => (/\ exitCode = EXIT_SUCCESS
              /\ BootstrapCalls(calls) = BootstrapCallsOfMain
              /\ NcCloseCalls = 1
              /\ calls[Len(calls)].fn = "nc_close"))

\* the flag was raised while main was still daemonizing or bootstrapping
\* in the background, and the bootstrap has gone on to its last step
C14_Witness ==
    /\ Running /\ pc = "device_init" /\ mainloop = 1 /\ delivered = 1
    /\ daemonize = 1 /\ ~SomeStepFailed
    /\ Called("ncds_consolidate")

(* ------------------------------------------------------------------ C15 *)
NcInitSucceeded == \E i \in CallsOf("nc_init") : calls[i].ret >= 0

\* what C15 says of main: nc_close is called at most once, only after a
\* successful nc_init, and on every return from main after a successful
\* nc_init
NcCloseOnlyByMain ==
    /\ NcCloseCalls <= 1
    /\ \A i \in CallsOf("nc_close") :
         \E j \in CallsOf("nc_init") : j < i /\ calls[j].ret >= 0
    /\ (Exited /\ exitVia = "return" /\ NcInitSucceeded) => NcCloseCalls = 1

\* C15 as stated: ...and a process ended by exit() in the signal handler
\* (second termination signal, unsupported signal) has ended without
\* nc_close having been called.
C15_ForcedExitWithoutTeardown ==
    /\ NcCloseOnlyByMain
    /\ (Exited /\ exitVia = "handler") => NcCloseCalls = 0

\* C15 amended: nc_close is called at most once, only after a successful
\* nc_init, and on every return from main after a successful nc_init; the
\* signal handler never calls it, so a process ended by exit() in the
\* handler has ended without nc_close - unless main had already called it
\* at the cleanup label and had not yet returned when the signal arrived.
C15_NcCloseOnlyInCleanup ==
    /\ [](NcCloseOnlyByMain)
    /\ [][HandlerRuns => calls' = calls]_vars
    /\ []((Exited /\ exitVia = "handler" /\ pc # "return") => NcCloseCalls = 0)
    /\ []((Exited /\ exitVia = "handler" /\ pc = "return") => NcCloseCalls = 1)

\* the second signal ended the process in the poll loop: the library is
\* initialized and was never closed
C15_Witness ==
    /\ Exited /\ exitVia = "handler" /\ delivered = 2
    /\ pc = "sleep" /\ NcInitSucceeded /\ NcCloseCalls = 0

(* ------------------------------------------------------------------ C16 *)
\* main got through the bootstrap and went on to the poll loop
ReachedLoop == \E i \in CallsOf("ncds_device_init") : calls[i].ret = 0

\* C16: with the main program never suspended for ever, a state in which
\* the bootstrap has succeeded and the flag is raised leads to the end of
\* the process; a process that has ended after reaching the loop has either
\* returned 0 from main after nc_close, or was ended with EXIT_FAILURE by
\* the handler's second run.  While no signal has been handled after a
\* successful bootstrap the process is running, in the poll loop, and its
\* next step is enabled: it never terminates.
C16_TerminatesIffSignalled ==
    /\ ((ReachedLoop /\ mainloop = 1) ~> Exited)
    /\ []((ReachedLoop /\ Exited)
          => \/ /\ exitVia = "return" /\ exitCode = EXIT_SUCCESS
                /\ NcCloseCalls = 1 /\ delivered = 1
             \/ /\ exitVia = "handler" /\ exitCode = EXIT_FAILURE
                /\ delivered = 2)
    /\ []((ReachedLoop /\ delivered = 0)
          => (Running /\ InPollLoop /\ mainloop = 0 /\ ENABLED Main))

\* after several idle rounds of the loop one signal ended it: main returned
\* 0 in the background
C16_Witness ==
    /\ ReachedLoop /\ Exited /\ exitVia = "return" /\ exitCode = EXIT_SUCCESS
    /\ delivered = 1 /\ daemonize = 1 /\ NcCloseCalls = 1

====
